---------------------------- MODULE Spec2Model ----------------------------
(***************************************************************************)
(* Model of the ORM base layer of ProdKit:                                 *)
(*   - models/base.py: schema injection into __table_args__ at class       *)
(*     definition (Model.__init_subclass__, TableArgsMeta.__new__), the    *)
(*     timestamp columns of TimestampedModel and the identity, equality    *)
(*     and representation of RecordModel;                                  *)
(*   - extensions/sqlalchemy/types.py: the EnumType codec.                 *)
(* The specifications share the variables: SpecSchema (entity classes      *)
(* defined one after another), SpecInject (the hook on one class statement *)
(* of any shape), SpecCodec (the enum codec), SpecLifecycle (one entity    *)
(* from construction to detachment) and SpecIdentity (two entities         *)
(* compared and hashed).                                                   *)
(***************************************************************************)
EXTENDS Integers, Sequences, FiniteSets, TLC

VARIABLES
    classes,    \* class table: ClassIds -> class record
    heap,       \* dict objects by reference (index): Seq of mappings
    enum_klass, \* EnumType.enum_klass: member index -> underlying value
    value,      \* the value handed to the codec
    bound,      \* what process_bind_param returned for it
    result,     \* what process_result_value returned
    cpc,        \* codec position: "start", "bound", "roundtrip", "decoded"
    ents,       \* entity instances in memory: Instances -> instance record
    rows,       \* the stored row of each instance, NoRow before its INSERT
    clock,      \* what utc_now() returns
    call        \* the operation that led to the current state, with its outcome

schemaVars == <<classes, heap>>
codecVars == <<enum_klass, value, bound, result, cpc>>
entityVars == <<ents, rows, clock, call>>
vars == <<classes, heap, enum_klass, value, bound, result, cpc,
          ents, rows, clock, call>>

(***************************************************************************)
(* Bounds                                                                  *)
(***************************************************************************)
MaxClasses == 3
MaxTupleLen == 2
MaxMembers == 2
MaxUuid == 2
MaxClock == 3

ClassIds == 1..MaxClasses

(***************************************************************************)
(* Python values of the schema part                                        *)
(***************************************************************************)
\* Schema names a class body may assign to `schema`.
Schemas == {"a", "b"}
\* Marker for "the class body does not assign `schema`".
NoSchema == "<unset>"
\* getattr(cls, "schema", "") / attrs.get("schema", "") default.
DefaultSchema == ""

EmptyDict == [k \in {} |-> ""]
\* d[k] = v on a dict value (other keys kept).
DictSet(d, k, v) == [x \in (DOMAIN d) \cup {k} |-> IF x = k THEN v ELSE d[x]]

\* Dict literals a class body may write.
DictLiterals ==
    { EmptyDict,
      DictSet(EmptyDict, "comment", "x"),
      DictSet(EmptyDict, "schema", "old"),
      DictSet(DictSet(EmptyDict, "comment", "x"), "schema", "old") }

\* Values of __table_args__ and of tuple elements.  A dict is a reference
\* into heap (dicts are mutable, shared objects); a tuple is an immutable
\* sequence of items; "none" is None; "absent" is no attribute at all.
Absent == [kind |-> "absent", ref |-> 0, items |-> <<>>]
NoneArgs == [kind |-> "none", ref |-> 0, items |-> <<>>]
DictArgs(r) == [kind |-> "dict", ref |-> r, items |-> <<>>]
TupleArgs(s) == [kind |-> "tuple", ref |-> 0, items |-> s]
DictItem(r) == [kind |-> "dict", ref |-> r]
\* A non-dict tuple element (an Index, a constraint).
ObjItem == [kind |-> "obj", ref |-> 0]

\* What a class body can write for __table_args__, before its dict
\* literals are allocated: a tuple shape says where the dict literals are.
TupleShapes ==
    UNION { [1..n -> {"obj", "dict"}] : n \in 0..MaxTupleLen }
TupleBody(s, d) == [kind |-> "tuple", d |-> d, shape |-> s]
CommentDict == DictSet(EmptyDict, "comment", "x")
BodyArgs ==
    {[kind |-> "absent", d |-> EmptyDict, shape |-> <<>>],
     [kind |-> "none", d |-> EmptyDict, shape |-> <<>>]}
    \cup {[kind |-> "dict", d |-> d, shape |-> <<>>] : d \in DictLiterals}
    \cup {TupleBody(s, d) : s \in TupleShapes,
                             d \in {CommentDict, DictSet(CommentDict, "schema", "old")}}
\* The bodies used when several classes are defined one after another.
SeqBodyArgs ==
    {b \in BodyArgs : b.kind # "tuple" /\ "schema" \notin DOMAIN b.d}
    \cup {TupleBody(s, CommentDict) : s \in {<<>>, <<"dict">>, <<"obj">>}}

(***************************************************************************)
(* Python values of the codec part                                         *)
(***************************************************************************)
\* None, primitives (integers and texts, by kind and code), members of an
\* enumeration, and the outcome "ValueError raised".  Enumeration 1 is the
\* configured enum_klass, enumeration 2 some other Enum class.
PyNone == [tag |-> "None", cls |-> 0, v |-> 0]
IntVal(i) == [tag |-> "int", cls |-> 0, v |-> i]
StrVal(i) == [tag |-> "str", cls |-> 0, v |-> i]
Member(k, i) == [tag |-> "member", cls |-> k, v |-> i]
ValueError == [tag |-> "ValueError", cls |-> 0, v |-> 0]
Unset == [tag |-> "unset", cls |-> 0, v |-> 0]

\* 0 and the empty text are the falsy primitives.
Primitives == {IntVal(0), IntVal(1), StrVal(0), StrVal(1)}
MemberValues == Primitives \cup {PyNone}

\* An Enum class: its canonical members, each with its own underlying value
\* (a second name for a value is an alias of the same member).
EnumKlasses ==
    UNION { {E \in [1..n -> MemberValues] :
                \A i, j \in 1..n : E[i] = E[j] => i = j} : n \in 1..MaxMembers }

IsInstance(x, E) == x.tag = "member" /\ x.cls = 1 /\ x.v \in DOMAIN E
Inputs(E) ==
    {PyNone} \cup Primitives \cup {Member(1, i) : i \in DOMAIN E} \cup {Member(2, 1)}

(***************************************************************************)
(* Values of the entity part                                               *)
(***************************************************************************)
\* Two instances: the operands of ==.  The lifecycle is followed on one.
Instances == {1, 2}
\* UUIDs by number (UUID.int); timestamps are clock readings, from 1.
Uuids == 1..MaxUuid
\* None as the value of id and of a timestamp attribute.
Null == 0

\* Concrete entity classes under RecordModel: B is a subclass of A (mapped
\* inheritance, one primary key with A), C is unrelated.
EntityClasses == {"A", "B", "C"}
IsSubclass(x, y) == x = y \/ (x = "B" /\ y = "A")
TableOf(k) == IF k = "C" THEN "c" ELSE "a"

\* An instance that does not exist yet.
NoInstance ==
    [st |-> "none", cls |-> "A", id |-> Null, identity |-> Null,
     created_at |-> Null, modified_at |-> Null, deleted_at |-> Null,
     dirty |-> FALSE, expired |-> FALSE]
NoRow == [id |-> Null, created_at |-> Null, modified_at |-> Null, deleted_at |-> Null]

\* Outcomes of __eq__, __hash__ and __repr__.
NoOut == [tag |-> "none", cls |-> "", v |-> 0]
BoolOut(b) == [tag |-> "bool", cls |-> "", v |-> IF b THEN 1 ELSE 0]
IntOut(i) == [tag |-> "int", cls |-> "", v |-> i]
ReprOut(k, i) == [tag |-> "repr", cls |-> k, v |-> i]
Raised(e) == [tag |-> e, cls |-> "", v |-> 0]
Errors == {"AttributeError", "DetachedInstanceError"}

NoCall == [op |-> "none", a |-> 0, b |-> 0, out |-> NoOut]
Called(op, a, b, out) == [op |-> op, a |-> a, b |-> b, out |-> out]

\* The entity part while another part of the layer is exercised.
EntityIdle ==
    /\ ents = [e \in Instances |-> NoInstance]
    /\ rows = [e \in Instances |-> NoRow]
    /\ clock = 1
    /\ call = NoCall

\* The codec part while another part of the layer is exercised.
CodecIdle ==
    /\ enum_klass = <<>>
    /\ value = Unset /\ bound = Unset /\ result = Unset
    /\ cpc = "idle"

(***************************************************************************)
(* Class table and attribute lookup                                        *)
(***************************************************************************)
\* Class 0 stands for Model itself (and its abstract descendants
\* TimestampedModel and RecordModel): no `schema`, no __table_args__.
UndefinedClass ==
    [st |-> "undef", meta |-> FALSE, parent |-> 0,
     schema |-> NoSchema, table_args |-> Absent]

\* Number of dict literals in a tuple shape s up to position i.
RECURSIVE DictCount(_, _)
DictCount(s, i) ==
    IF i = 0 THEN 0
    ELSE DictCount(s, i - 1) + (IF s[i] = "dict" THEN 1 ELSE 0)

\* Evaluating a class body's __table_args__ expression: every dict literal
\* becomes a new object of the heap.
EvalBodyArgs(h, b) ==
    CASE b.kind = "absent" -> [heap |-> h, table_args |-> Absent]
      [] b.kind = "none" -> [heap |-> h, table_args |-> NoneArgs]
      [] b.kind = "dict" ->
            [heap |-> Append(h, b.d), table_args |-> DictArgs(Len(h) + 1)]
      [] b.kind = "tuple" ->
            [heap |-> h \o [i \in 1..DictCount(b.shape, Len(b.shape)) |-> b.d],
             table_args |->
                TupleArgs([i \in 1..Len(b.shape) |->
                    IF b.shape[i] = "dict"
                    THEN DictItem(Len(h) + DictCount(b.shape, i))
                    ELSE ObjItem])]

\* hasattr(cls, "__table_args__"): the class's own attribute or an
\* ancestor's.
RECURSIVE HasTableArgs(_, _)
HasTableArgs(cls, c) ==
    IF c = 0 THEN FALSE
    ELSE cls[c].table_args # Absent \/ HasTableArgs(cls, cls[c].parent)

\* cls.__table_args__ (only read when HasTableArgs).
RECURSIVE GetTableArgs(_, _)
GetTableArgs(cls, c) ==
    IF c = 0 THEN Absent
    ELSE IF cls[c].table_args # Absent THEN cls[c].table_args
    ELSE GetTableArgs(cls, cls[c].parent)

\* getattr(cls, "schema", "").
RECURSIVE GetSchema(_, _)
GetSchema(cls, c) ==
    IF c = 0 THEN DefaultSchema
    ELSE IF cls[c].schema # NoSchema THEN cls[c].schema
    ELSE GetSchema(cls, cls[c].parent)

\* attrs.get("schema", "") of TableArgsMeta.__new__: the class body only.
AttrsSchema(cls, c) ==
    IF cls[c].schema # NoSchema THEN cls[c].schema ELSE DefaultSchema

\* The schema part while another part of the layer is exercised.
SchemaIdle ==
    /\ classes = [c \in ClassIds |-> UndefinedClass]
    /\ heap = <<>>

(***************************************************************************)
(* Schema injection                                                        *)
(***************************************************************************)
\* A variant of InjectSchema that writes the schema into a tuple's trailing
\* dict in place instead of copying it.
InjectSchemaInPlace(h, table_args, schema) ==
    IF table_args.kind = "dict"
    THEN [heap |-> [h EXCEPT ![table_args.ref] = DictSet(@, "schema", schema)],
          table_args |-> table_args]
    ELSE IF table_args.kind = "tuple"
    THEN LET items == table_args.items
             n == Len(items)
         IN IF n > 0 /\ items[n].kind = "dict"
            THEN [heap |-> [h EXCEPT ![items[n].ref] = DictSet(@, "schema", schema)],
                  table_args |-> table_args]
            ELSE [heap |-> Append(h, DictSet(EmptyDict, "schema", schema)),
                  table_args |-> TupleArgs(Append(items, DictItem(Len(h) + 1)))]
    ELSE [heap |-> h, table_args |-> table_args]

\* The if/elif of base.py:60-68 (and 21-29): the heap and the table_args
\* value after injecting `schema`.
InjectSchema(h, table_args, schema) ==
    IF table_args.kind = "dict"
    THEN \* table_args["schema"] = schema, in place
         [heap |-> [h EXCEPT ![table_args.ref] = DictSet(@, "schema", schema)],
          table_args |-> table_args]
    ELSE IF table_args.kind = "tuple"
    THEN LET items == table_args.items
             n == Len(items)
         IN IF n > 0 /\ items[n].kind = "dict"
            THEN \* table_args[:-1] + (dict(table_args[-1], schema=schema),)
                 [heap |-> Append(h, DictSet(h[items[n].ref], "schema", schema)),
                  table_args |->
                    TupleArgs(Append(SubSeq(items, 1, n - 1), DictItem(Len(h) + 1)))]
            ELSE \* table_args + ({"schema": schema},)
                 [heap |-> Append(h, DictSet(EmptyDict, "schema", schema)),
                  table_args |-> TupleArgs(Append(items, DictItem(Len(h) + 1)))]
    ELSE [heap |-> h, table_args |-> table_args]

(***************************************************************************)
(* Actions of the schema part                                              *)
(***************************************************************************)
NoClassInBody == \A c \in ClassIds : classes[c].st # "body"
NextClass(c) ==
    /\ classes[c].st = "undef"
    /\ \A d \in ClassIds : d < c => classes[d].st = "defined"

\* The class object type.__new__ builds from a class statement
\* `class C(P): schema = s; __table_args__ = b`, before any hook has run.
NewClass(h, p, s, b, meta) ==
    LET r == EvalBodyArgs(h, b) IN
    [heap |-> r.heap,
     class |-> [st |-> "body", meta |-> meta, parent |-> p,
                schema |-> s, table_args |-> r.table_args]]

\* A class statement under Model: P is Model (0) or an already defined
\* entity class.
ClassBody(c, p, s, b) ==
    /\ NoClassInBody
    /\ NextClass(c)
    /\ IF p = 0 THEN TRUE ELSE classes[p].st = "defined" /\ ~classes[p].meta
    /\ LET r == NewClass(heap, p, s, b, FALSE) IN
        /\ heap' = r.heap
        /\ classes' = [classes EXCEPT ![c] = r.class]
    /\ UNCHANGED <<codecVars, entityVars>>

\* Model.__init_subclass__(cls)
InitSubclass(c) ==
    /\ classes[c].st = "body"
    /\ ~classes[c].meta
    /\ IF HasTableArgs(classes, c)
       THEN LET r == InjectSchema(heap, GetTableArgs(classes, c),
                                  GetSchema(classes, c)) IN
            /\ heap' = r.heap
            /\ classes' = [classes EXCEPT ![c].st = "defined",
                                          ![c].table_args = r.table_args]
       ELSE /\ heap' = heap
            /\ classes' = [classes EXCEPT ![c].st = "defined"]
    /\ UNCHANGED <<codecVars, entityVars>>

\* TableArgsMeta.__new__(cls, name, bases, attrs)
TableArgsMetaNew(c) ==
    /\ classes[c].st = "body"
    /\ classes[c].meta
    /\ IF classes[c].table_args # Absent
       THEN LET r == InjectSchema(heap, classes[c].table_args,
                                  AttrsSchema(classes, c)) IN
            /\ heap' = r.heap
            /\ classes' = [classes EXCEPT ![c].st = "defined",
                                          ![c].table_args = r.table_args]
       ELSE /\ heap' = heap
            /\ classes' = [classes EXCEPT ![c].st = "defined"]
    /\ UNCHANGED <<codecVars, entityVars>>

\* SpecSchema: entity classes are defined under Model one after another.
SchemaInit ==
    /\ classes = [c \in ClassIds |-> UndefinedClass]
    /\ heap = <<>>
    /\ CodecIdle /\ EntityIdle

SchemaNext ==
    \/ \E c \in ClassIds, p \in {0} \cup ClassIds,
          s \in Schemas \cup {NoSchema}, b \in SeqBodyArgs : ClassBody(c, p, s, b)
    \/ \E c \in ClassIds : InitSubclass(c)

SpecSchema == SchemaInit /\ [][SchemaNext]_vars

\* SpecInject: one class statement with any table arguments, any schema,
\* under Model or with metaclass=TableArgsMeta; the hook then runs on it,
\* and on the subclasses that inherit its table arguments.
InjectInit ==
    \E s \in Schemas \cup {NoSchema}, b \in BodyArgs, meta \in BOOLEAN :
        LET r == NewClass(<<>>, 0, s, b, meta) IN
        /\ heap = r.heap
        /\ classes = [c \in ClassIds |-> IF c = 1 THEN r.class ELSE UndefinedClass]
        /\ CodecIdle /\ EntityIdle

\* Further classes inherit their table arguments: `class D(C): schema = s`.
InheritBody == [kind |-> "absent", d |-> EmptyDict, shape |-> <<>>]

InjectNext ==
    \/ \E c \in ClassIds : InitSubclass(c)
    \/ \E c \in ClassIds : TableArgsMetaNew(c)
    \/ \E c, p \in ClassIds, s \in Schemas \cup {NoSchema} :
          ClassBody(c, p, s, InheritBody)

SpecInject == InjectInit /\ [][InjectNext]_vars

(***************************************************************************)
(* The enum codec (types.py)                                               *)
(***************************************************************************)
\* A variant of EnumCall that falls back to the first member.
EnumCallDefault(E, x) ==
    IF IsInstance(x, E) THEN x
    ELSE IF \E i \in DOMAIN E : E[i] = x
    THEN Member(1, CHOOSE i \in DOMAIN E : E[i] = x)
    ELSE Member(1, 1)

\* enum_klass(x), Enum's value lookup: a member of the class is returned as
\* it is, a value is looked up among the members' values, anything else
\* raises ValueError.
EnumCall(E, x) ==
    IF IsInstance(x, E) THEN x
    ELSE IF \E i \in DOMAIN E : E[i] = x
    THEN Member(1, CHOOSE i \in DOMAIN E : E[i] = x)
    ELSE ValueError

\* EnumType.process_bind_param(value, dialect)
process_bind_param(E, x) == IF IsInstance(x, E) THEN E[x.v] ELSE x

\* A variant of process_result_value that tests truthiness, not None.
Falsy == {PyNone, IntVal(0), StrVal(0)}
process_result_value_falsy(E, x) == IF x \in Falsy THEN x ELSE EnumCall(E, x)

\* EnumType.process_result_value(value, dialect)
process_result_value(E, x) == IF x = PyNone THEN x ELSE EnumCall(E, x)

CodecInit ==
    /\ enum_klass \in EnumKlasses
    /\ value \in Inputs(enum_klass)
    /\ bound = Unset /\ result = Unset
    /\ cpc = "start"
    /\ SchemaIdle /\ EntityIdle

\* The storage layer binds `value` as a statement parameter.
BindParam ==
    /\ cpc = "start"
    /\ bound' = process_bind_param(enum_klass, value)
    /\ cpc' = "bound"
    /\ UNCHANGED <<enum_klass, value, result>>
    /\ UNCHANGED <<schemaVars, entityVars>>

\* The storage layer reads back the stored parameter.
ResultOfBound ==
    /\ cpc = "bound"
    /\ result' = process_result_value(enum_klass, bound)
    /\ cpc' = "roundtrip"
    /\ UNCHANGED <<enum_klass, value, bound>>
    /\ UNCHANGED <<schemaVars, entityVars>>

\* The storage layer reads a column that holds `value`.
ResultOfValue ==
    /\ cpc = "start"
    /\ result' = process_result_value(enum_klass, value)
    /\ cpc' = "decoded"
    /\ UNCHANGED <<enum_klass, value, bound>>
    /\ UNCHANGED <<schemaVars, entityVars>>

CodecNext == BindParam \/ ResultOfBound \/ ResultOfValue

SpecCodec == CodecInit /\ [][CodecNext]_vars

(***************************************************************************)
(* Claims about the enum codec                                             *)
(***************************************************************************)
\* C3 as stated: for every member m of the configured enumeration, whatever
\* its underlying value, process_result_value(process_bind_param(m)) = m.
C3_RoundTripAnyMember ==
    (cpc = "roundtrip" /\ IsInstance(value, enum_klass)) => result = value

\* C3 amended: the round trip returns m for every member m whose underlying
\* value is not None.
C3_RoundTripNonNullMember ==
    (cpc = "roundtrip" /\ IsInstance(value, enum_klass)
        /\ enum_klass[value.v] # PyNone) => result = value

\* A member with a falsy underlying value has made the round trip.
C3_Witness ==
    /\ cpc = "roundtrip" /\ IsInstance(value, enum_klass)
    /\ enum_klass[value.v] = IntVal(0)
    /\ bound = IntVal(0)
    /\ result = value

Matches(E, x) == IsInstance(x, E) \/ \E i \in DOMAIN E : E[i] = x

\* C4: process_result_value of an x that matches no member raises
\* ValueError; None is the only input returned without constructing a
\* member, and it is returned unchanged; a member that is returned is the
\* one x denotes, never a default.
C4_DecodeRaisesOnNoMatch ==
    cpc = "decoded" =>
        /\ value = PyNone => result = PyNone
        /\ (value # PyNone /\ ~Matches(enum_klass, value)) => result = ValueError
        /\ (value # PyNone /\ result # ValueError) =>
              /\ IsInstance(result, enum_klass)
              /\ result = value \/ enum_klass[result.v] = value

\* A primitive that no member has as its value was decoded and raised.
C4_Witness ==
    /\ cpc = "decoded"
    /\ value \in Primitives
    /\ ~Matches(enum_klass, value)
    /\ result = ValueError

(***************************************************************************)
(* Entities: TimestampedModel and RecordModel (base.py:73-116)             *)
(***************************************************************************)
\* utc_now() of app.infra.kit.utils: the current time.
utc_now == clock
\* generate_uuid() of app.infra.kit.utils: some UUID.
generate_uuid == Uuids

\* RecordModel(...) / RecordModel(id=...): the column defaults are not
\* applied by the constructor, an attribute that is not passed stays None.
NewInstance(k, idArg) ==
    [st |-> "transient", cls |-> k, id |-> idArg, identity |-> Null,
     created_at |-> Null, modified_at |-> Null, deleted_at |-> Null,
     dirty |-> FALSE, expired |-> FALSE]

\* A variant of InsertDefaults without the default of id.
InsertDefaultsNoId(ent, now, uuid) ==
    [ent EXCEPT !.created_at = now, !.modified_at = Null]

\* The column defaults applied to the parameters of the INSERT:
\* id default=generate_uuid when none was given, created_at default=utc_now,
\* modified_at default=None, deleted_at default=None.
InsertDefaults(ent, now, uuid) ==
    [ent EXCEPT !.id = IF @ = Null THEN uuid ELSE @,
                !.created_at = now,
                !.modified_at = Null]

\* A variant of OnUpdate that stamps the first UPDATE only.
OnUpdateOnce(ent, now) ==
    [ent EXCEPT !.modified_at = IF @ = Null THEN now ELSE @]

\* modified_at onupdate=utc_now, applied to every UPDATE of the row.
OnUpdate(ent, now) == [ent EXCEPT !.modified_at = now]

\* A variant of set_deleted_at that un-deletes a deleted instance.
set_deleted_at_toggle(ent, now) ==
    [ent EXCEPT !.deleted_at = IF @ = Null THEN now ELSE Null]

\* TimestampedModel.set_deleted_at(self)
set_deleted_at(ent, now) == [ent EXCEPT !.deleted_at = now]

RowOf(ent) ==
    [id |-> ent.id, created_at |-> ent.created_at,
     modified_at |-> ent.modified_at, deleted_at |-> ent.deleted_at]

\* Reading self.id: an expired attribute is loaded from the row first, which
\* a detached instance cannot do.
ReadId(ent) ==
    IF ~ent.expired THEN [ent |-> ent, out |-> IntOut(ent.id)]
    ELSE IF ent.st = "detached"
    THEN [ent |-> ent, out |-> Raised("DetachedInstanceError")]
    ELSE [ent |-> [ent EXCEPT !.expired = FALSE], out |-> IntOut(ent.id)]

\* A variant of eq that compares the ids only.
eq_ids_only(self, other) ==
    LET r1 == ReadId(self)
        r2 == ReadId(other)
    IN  IF r1.out.tag \in Errors
        THEN [self |-> r1.ent, other |-> other, out |-> r1.out]
        ELSE IF r2.out.tag \in Errors
        THEN [self |-> r1.ent, other |-> r2.ent, out |-> r2.out]
        ELSE [self |-> r1.ent, other |-> r2.ent, out |-> BoolOut(r1.out.v = r2.out.v)]

\* RecordModel.__eq__(self, other):
\*   isinstance(other, self.__class__) and self.id == other.id
\* The two instances after the call (an expired id is loaded when it is
\* read) and the outcome; `and` reads no id when isinstance fails.
eq(self, other) ==
    LET r1 == ReadId(self)
        r2 == ReadId(other)
    IN  IF ~IsSubclass(other.cls, self.cls)
        THEN [self |-> self, other |-> other, out |-> BoolOut(FALSE)]
        ELSE IF r1.out.tag \in Errors
        THEN [self |-> r1.ent, other |-> other, out |-> r1.out]
        ELSE IF r2.out.tag \in Errors
        THEN [self |-> r1.ent, other |-> r2.ent, out |-> r2.out]
        ELSE [self |-> r1.ent, other |-> r2.ent, out |-> BoolOut(r1.out.v = r2.out.v)]

\* a == b as Python evaluates it with RecordModel.__eq__: when type(b) is a
\* proper subclass of type(a) the reflected b.__eq__(a) is tried first,
\* otherwise a.__eq__(b); __eq__ never returns NotImplemented, so the first
\* call decides.  The result names the instances as a and b.
RichCompareEq(a, b) ==
    IF a.cls # b.cls /\ IsSubclass(b.cls, a.cls)
    THEN [a |-> eq(b, a).other, b |-> eq(b, a).self, out |-> eq(b, a).out]
    ELSE [a |-> eq(a, b).self, b |-> eq(a, b).other, out |-> eq(a, b).out]

\* RecordModel.__hash__(self): self.id.int
hash(self) ==
    IF ReadId(self).out.tag \in Errors THEN ReadId(self).out
    ELSE IF ReadId(self).out.v = Null THEN Raised("AttributeError")
    ELSE ReadId(self).out

\* A variant of repr that formats self.id.
repr_of_attribute(self) ==
    [ent |-> ReadId(self).ent,
     out |-> IF ReadId(self).out.tag \in Errors THEN ReadId(self).out
             ELSE ReprOut(self.cls, ReadId(self).out.v)]

\* RecordModel.__repr__(self): inspect(self).identity, never self.id.  The
\* instance after the call and the text.
repr(self) ==
    [ent |-> self,
     out |-> IF self.identity # Null THEN ReprOut(self.cls, self.identity)
             ELSE ReprOut(self.cls, Null)]

EntityInit ==
    /\ ents = [e \in Instances |-> NoInstance]
    /\ rows = [e \in Instances |-> NoRow]
    /\ clock = 1
    /\ call = NoCall
    /\ SchemaIdle /\ CodecIdle

\* e = SomeEntity() or SomeEntity(id=u)
Construct(e, k, idArg) ==
    /\ ents[e].st = "none"
    /\ \A d \in Instances : d < e => ents[d].st # "none"
    /\ ents' = [ents EXCEPT ![e] = NewInstance(k, idArg)]
    /\ call' = NoCall
    /\ UNCHANGED <<rows, clock>>
    /\ UNCHANGED <<schemaVars, codecVars>>

\* session.add(e)
Add(e) ==
    /\ ents[e].st = "transient"
    /\ ents' = [ents EXCEPT ![e].st = "pending"]
    /\ call' = NoCall
    /\ UNCHANGED <<rows, clock>>
    /\ UNCHANGED <<schemaVars, codecVars>>

\* The primary key u is free in the table of class k.
KeyFree(k, u) ==
    \A d \in Instances :
        (rows[d] # NoRow /\ TableOf(ents[d].cls) = TableOf(k)) => rows[d].id # u

\* Flush of a pending instance: the INSERT, with the column defaults; the
\* instance gets its persistence identity.  out.v says whether the id came
\* from the default.
Insert(e, uuid) ==
    /\ ents[e].st = "pending"
    /\ uuid \in generate_uuid
    /\ LET new == InsertDefaults(ents[e], utc_now, uuid) IN
        /\ KeyFree(new.cls, new.id)
        /\ ents' = [ents EXCEPT ![e] =
                [new EXCEPT !.st = "persistent", !.identity = new.id,
                            !.dirty = FALSE]]
        /\ rows' = [rows EXCEPT ![e] = RowOf(new)]
        /\ call' = Called("insert", e, e, IntOut(IF ents[e].id = Null THEN 1 ELSE 0))
    /\ UNCHANGED clock
    /\ UNCHANGED <<schemaVars, codecVars>>

\* The application changes a column of the concrete entity.
Modify(e) ==
    /\ ents[e].st = "persistent"
    /\ ents' = [ents EXCEPT ![e].dirty = TRUE]
    /\ call' = NoCall
    /\ UNCHANGED <<rows, clock>>
    /\ UNCHANGED <<schemaVars, codecVars>>

\* e.set_deleted_at()
SetDeletedAt(e) ==
    /\ ents[e].st # "none"
    /\ LET new == set_deleted_at(ents[e], utc_now) IN
        ents' = [ents EXCEPT ![e] =
            [new EXCEPT !.dirty = IF ents[e].st = "persistent"
                                  THEN @ \/ new.deleted_at # ents[e].deleted_at
                                  ELSE @]]
    /\ call' = NoCall
    /\ UNCHANGED <<rows, clock>>
    /\ UNCHANGED <<schemaVars, codecVars>>

\* Flush of a modified persistent instance: the UPDATE statement.
Update(e) ==
    /\ ents[e].st = "persistent"
    /\ ents[e].dirty
    /\ LET new == OnUpdate(ents[e], utc_now) IN
        /\ ents' = [ents EXCEPT ![e] = [new EXCEPT !.dirty = FALSE]]
        /\ rows' = [rows EXCEPT ![e] = RowOf(new)]
    /\ call' = NoCall
    /\ UNCHANGED clock
    /\ UNCHANGED <<schemaVars, codecVars>>

\* Commit: the attributes of a flushed instance expire.
Expire(e) ==
    /\ ents[e].st = "persistent"
    /\ ~ents[e].dirty
    /\ ~ents[e].expired
    /\ ents' = [ents EXCEPT ![e].expired = TRUE]
    /\ call' = NoCall
    /\ UNCHANGED <<rows, clock>>
    /\ UNCHANGED <<schemaVars, codecVars>>

\* Session closed or instance expunged.
Detach(e) ==
    /\ ents[e].st = "persistent"
    /\ ~ents[e].dirty
    /\ ents' = [ents EXCEPT ![e].st = "detached"]
    /\ call' = NoCall
    /\ UNCHANGED <<rows, clock>>
    /\ UNCHANGED <<schemaVars, codecVars>>

\* a == b
Eq(a, b) ==
    /\ ents[a].st # "none" /\ ents[b].st # "none"
    /\ LET r == RichCompareEq(ents[a], ents[b]) IN
        /\ call' = Called("eq", a, b, r.out)
        /\ ents' = [e \in Instances |->
                IF a = b /\ e = a
                THEN (IF r.out.tag \in Errors THEN ents[e]
                      ELSE [ents[e] EXCEPT !.expired = FALSE])
                ELSE IF e = a THEN r.a
                ELSE IF e = b THEN r.b
                ELSE ents[e]]
    /\ UNCHANGED <<rows, clock>>
    /\ UNCHANGED <<schemaVars, codecVars>>

\* hash(a)
Hash(a) ==
    /\ ents[a].st # "none"
    /\ call' = Called("hash", a, a, hash(ents[a]))
    /\ ents' = [ents EXCEPT ![a] = ReadId(ents[a]).ent]
    /\ UNCHANGED <<rows, clock>>
    /\ UNCHANGED <<schemaVars, codecVars>>

\* repr(a)
Repr(a) ==
    /\ ents[a].st # "none"
    /\ call' = Called("repr", a, a, repr(ents[a]).out)
    /\ ents' = [ents EXCEPT ![a] = repr(ents[a]).ent]
    /\ UNCHANGED <<rows, clock>>
    /\ UNCHANGED <<schemaVars, codecVars>>

\* Time passes.
Tick ==
    /\ clock < MaxClock
    /\ clock' = clock + 1
    /\ call' = NoCall
    /\ UNCHANGED <<ents, rows>>
    /\ UNCHANGED <<schemaVars, codecVars>>

\* SpecLifecycle: one instance from construction through insert, updates,
\* soft deletion, commit and detachment, with its representation taken at
\* any point.
LifecycleNext ==
    \/ \E k \in EntityClasses, i \in Uuids \cup {Null} : Construct(1, k, i)
    \/ Add(1)
    \/ \E u \in Uuids : Insert(1, u)
    \/ Modify(1)
    \/ SetDeletedAt(1)
    \/ Update(1)
    \/ Expire(1)
    \/ Detach(1)
    \/ Repr(1)
    \/ Tick

SpecLifecycle == EntityInit /\ [][LifecycleNext]_vars

\* SpecIdentity: two instances of any classes and ids, in any persistence
\* state, compared and hashed.
IdentityNext ==
    \/ \E e \in Instances, k \in EntityClasses, i \in Uuids \cup {Null} :
          Construct(e, k, i)
    \/ \E e \in Instances : Add(e)
    \/ \E e \in Instances, u \in Uuids : Insert(e, u)
    \/ \E e \in Instances : Expire(e)
    \/ \E e \in Instances : Detach(e)
    \/ \E a, b \in Instances : Eq(a, b)
    \/ \E a \in Instances : Hash(a)

SpecIdentity == EntityInit /\ [][IdentityNext]_vars

(***************************************************************************)
(* Claims about schema injection                                           *)
(***************************************************************************)
\* The schema entry of a table_args value: its own "schema" key for a
\* dict, the trailing dict's for a tuple, "<none>" when there is no such key.
NoEntry == "<none>"
DictSchemaEntry(h, r) == IF "schema" \in DOMAIN h[r] THEN h[r]["schema"] ELSE NoEntry
SchemaEntry(h, ta) ==
    IF ta.kind = "dict" THEN DictSchemaEntry(h, ta.ref)
    ELSE IF ta.kind = "tuple" /\ Len(ta.items) > 0
            /\ ta.items[Len(ta.items)].kind = "dict"
    THEN DictSchemaEntry(h, ta.items[Len(ta.items)].ref)
    ELSE NoEntry

\* C1: after any sequence of entity-class definitions, every defined class
\* that has table arguments (a dict or a tuple, its own or inherited) and a
\* declared schema S has table arguments whose schema entry is S.
C1_SchemaEntryIsOwnSchema ==
    \A c \in ClassIds :
        (/\ classes[c].st = "defined"
         /\ HasTableArgs(classes, c)
         /\ GetTableArgs(classes, c).kind \in {"dict", "tuple"}
         /\ GetSchema(classes, c) \in Schemas)
        => SchemaEntry(heap, GetTableArgs(classes, c)) = GetSchema(classes, c)

\* C2: every defined entity class, with or without table arguments and with
\* or without a schema attribute, has table arguments that hold a schema key.
C2_EveryClassHasSchemaKey ==
    \A c \in ClassIds :
        classes[c].st = "defined"
        => /\ HasTableArgs(classes, c)
           /\ SchemaEntry(heap, GetTableArgs(classes, c)) # NoEntry

\* The table arguments and the schema string the hook of class c reads.
InputArgs(c) ==
    IF classes[c].meta THEN classes[c].table_args ELSE GetTableArgs(classes, c)
InputSchema(c) ==
    IF classes[c].meta THEN AttrsSchema(classes, c) ELSE GetSchema(classes, c)

\* d2 is d with schema = S and every other key kept.
WithSchema(d2, d, S) ==
    /\ DOMAIN d2 = (DOMAIN d) \cup {"schema"}
    /\ d2["schema"] = S
    /\ \A k \in (DOMAIN d) \ {"schema"} : d2[k] = d[k]

\* Equality of two table_args values by content (dicts compared by value).
ItemEq(h1, x1, h2, x2) ==
    /\ x1.kind = x2.kind
    /\ x1.kind = "dict" => h1[x1.ref] = h2[x2.ref]
ArgsEq(h1, a1, h2, a2) ==
    /\ a1.kind = a2.kind
    /\ a1.kind = "dict" => h1[a1.ref] = h2[a2.ref]
    /\ Len(a1.items) = Len(a2.items)
    /\ \A i \in 1..Len(a1.items) : ItemEq(h1, a1.items[i], h2, a2.items[i])

InjectionStep(c) ==
    LET a == InputArgs(c)
        S == InputSchema(c)
        n == Len(a.items)
        out == classes'[c].table_args
        again == InjectSchema(heap', out, S)
    IN  /\ a.kind = "dict" =>
            /\ out = a
            /\ WithSchema(heap'[a.ref], heap[a.ref], S)
        /\ (a.kind = "tuple" /\ n > 0 /\ a.items[n].kind = "dict") =>
            /\ out.kind = "tuple" /\ Len(out.items) = n
            /\ \A i \in 1..(n - 1) : out.items[i] = a.items[i]
            /\ out.items[n].kind = "dict"
            /\ out.items[n].ref \notin 1..Len(heap)
            /\ WithSchema(heap'[out.items[n].ref], heap[a.items[n].ref], S)
            /\ heap'[a.items[n].ref] = heap[a.items[n].ref]
        /\ (a.kind = "tuple" /\ (n = 0 \/ a.items[n].kind # "dict")) =>
            /\ out.kind = "tuple" /\ Len(out.items) = n + 1
            /\ \A i \in 1..n : out.items[i] = a.items[i]
            /\ out.items[n + 1].kind = "dict"
            /\ out.items[n + 1].ref \notin 1..Len(heap)
            /\ heap'[out.items[n + 1].ref] = DictSet(EmptyDict, "schema", S)
        /\ a.kind \in {"dict", "tuple"} =>
            ArgsEq(again.heap, again.table_args, heap', out)

\* C10: when the hook runs on a class, a dict gets schema = S with the other
\* keys kept; a tuple ending in a dict gets that dict replaced by a new copy
\* with schema = S, the other elements kept and the original dict untouched;
\* any other tuple gets {schema: S} appended; injecting again into the
\* result with the same S gives an equal result.
C10_InjectionByShape ==
    [][\A c \in ClassIds :
        (classes[c].st = "body" /\ classes'[c].st = "defined") => InjectionStep(c)]_vars

\* A class whose tuple ended in a dict that had other keys has been defined.
C10_Witness ==
    \E c \in ClassIds :
        /\ classes[c].st = "defined"
        /\ classes[c].table_args.kind = "tuple"
        /\ Len(classes[c].table_args.items) = 2
        /\ classes[c].table_args.items[2].kind = "dict"
        /\ DOMAIN heap[classes[c].table_args.items[2].ref] = {"schema", "comment"}
        /\ Len(heap) > 1

(***************************************************************************)
(* Claims about entities                                                   *)
(***************************************************************************)
Persisted(ent) == ent.st \in {"persistent", "detached"}

C7_CreatedOnceModifiedOnUpdate ==
    [][\A e \in Instances :
        /\ ~Persisted(ents'[e]) => ents'[e].created_at = Null
        /\ (rows[e] = NoRow /\ rows'[e] # NoRow) =>
              /\ rows'[e].created_at = utc_now /\ rows'[e].created_at # Null
              /\ rows'[e].modified_at = Null
        /\ rows[e] # NoRow => rows'[e].created_at = rows[e].created_at
        /\ Update(e) => rows'[e].modified_at = utc_now
        /\ (rows[e] # NoRow /\ rows'[e].modified_at # rows[e].modified_at) =>
              Update(e)
        /\ Persisted(ents'[e]) =>
              /\ ents'[e].created_at = rows'[e].created_at
              /\ ents'[e].modified_at = rows'[e].modified_at]_vars

\* A row inserted at time 1 whose last UPDATE, not its first, was at the
\* latest time.
C7_Witness ==
    /\ rows[1] # NoRow
    /\ rows[1].created_at = 1
    /\ rows[1].modified_at = MaxClock
    /\ clock = MaxClock
    /\ ents[1].st = "persistent" /\ ~ents[1].dirty

\* C8: deleted_at is null until set_deleted_at is called; the call sets it
\* to a non-null timestamp and removes no row; no other operation sets it,
\* and nothing resets it to null.
C8_DeletedAtOnlyBySoftDelete ==
    [][\A e \in Instances :
        /\ ents[e].st = "none" => ents'[e].deleted_at = Null
        /\ ents'[e].deleted_at # ents[e].deleted_at => SetDeletedAt(e)
        /\ SetDeletedAt(e) =>
              /\ ents'[e].deleted_at = utc_now /\ ents'[e].deleted_at # Null
              /\ rows'[e] = rows[e]
        /\ ents[e].deleted_at # Null => ents'[e].deleted_at # Null
        /\ rows[e] # NoRow =>
              /\ rows'[e] # NoRow
              /\ rows[e].deleted_at # Null => rows'[e].deleted_at # Null
        /\ rows'[e].deleted_at # rows[e].deleted_at =>
              rows'[e].deleted_at = ents[e].deleted_at]_vars

\* A persisted instance was soft-deleted and flushed: its row is still
\* there and carries the timestamp.
C8_Witness ==
    /\ ents[1].st = "persistent"
    /\ ents[1].deleted_at # Null
    /\ rows[1] # NoRow
    /\ rows[1].deleted_at = ents[1].deleted_at
    /\ rows[1].modified_at # Null

\* C9: in every lifecycle state repr(a) returns, without raising and without
\* loading anything: ClassName(id=<the persistence identity>) when the
\* instance has one - which is the id of its row - and ClassName(id=None)
\* otherwise.
C9_ReprNeverRaisesNorLoads ==
    [][\A a \in Instances :
        (call'.op = "repr" /\ call'.a = a) =>
            /\ call'.out.tag = "repr"
            /\ call'.out.cls = ents[a].cls
            /\ call'.out.v = ents[a].identity
            /\ call'.out.v = (IF Persisted(ents[a]) THEN rows[a].id ELSE Null)
            /\ ents' = ents /\ rows' = rows]_vars

\* The representation of a detached instance with expired attributes was
\* taken and shows its id.
C9_Witness ==
    /\ call.op = "repr"
    /\ ents[call.a].st = "detached" /\ ents[call.a].expired
    /\ call.out = ReprOut(ents[call.a].cls, rows[call.a].id)
    /\ call.out.v # Null

=============================================================================
